---- MODULE Spec2Model ----
(***************************************************************************)
(* Real-time multimodal input arbitration of the AI consultant:           *)
(*   - AudioHandler.start_listening / recording_worker / stop_listening   *)
(*     (src/audio_handler.py): the voice activity segmenter;              *)
(*   - VisionHandler / CameraHandler (src/vision_handler.py): the gesture *)
(*     confirmation engine;                                               *)
(*   - chat() and the polling endpoints (src/web_app.py): the turn-taking *)
(*     coordinator and the two event queues.                              *)
(* Time is time.time() counted in ticks of half a second.                 *)
(***************************************************************************)
EXTENDS Integers, Sequences, FiniteSets, TLC

\* ------------------------------------------------------------------ bounds
\* The clock starts at 1 (time.time() is never 0) and stops at the horizon of
\* the scenario: LongTime where the audio inactivity timeout has to elapse,
\* IdleTime where the gesture inactivity timeout has to, ShortTime where the
\* confirmation window has to pass, TwoTicks elsewhere (OneTick where the
\* gesture queue alone is followed).
LongTime == 13
ShortTime == 5
TwoTicks == 2
OneTick == 1
IdleTime == 16
\* A worker reads no further frame into a buffer that holds the scenario's
\* number of frames: FewFrames, or ManyFrames where a segment has to pass the
\* minimum-length guard of _process_recorded_audio.
FewFrames == 4
ManyFrames == 11
\* Runs of equal volume in the buffer of one segment, where ManyFrames are read.
MaxRuns == 3
\* The gesture buffer holds at most MaxBuf observations before it is pruned
\* (OneObs in the scenario with the long horizon).
MaxBuf == 3
MaxMix == 7
OneObs == 1
\* The utterance queue and the gesture queue hold at most MaxQueue events.
MaxQueue == 2

\* ------------------------------------------------------- program constants
\* config.py, in ticks of half a second: 2.0 s, 5.0 s, 1.5 s, 7.0 s.
SILENCE_THRESHOLD == 4
INACTIVITY_TIMEOUT == 10
GESTURE_CONFIRMATION_TIME == 3
GESTURE_INACTIVITY_TIMEOUT == 14
VOICE_VOLUME_THRESHOLD == 500
MEDIAPIPE_MAX_NUM_HANDS == 2
\* _process_recorded_audio: "len(self.audio_frames) < 10".
MIN_FRAMES == 10
\* _check_gesture_confirmation: "count >= 3".
MIN_REPEATS == 3
\* stop_capture: "join(timeout=2.0)", in ticks.
JOIN_TIMEOUT == 4

\* Python's None: for a time, and for a handle or a label.
None == -1
Null == "None"

\* The threads that can run recording_worker at the same time: the worker of
\* the session and one left over from a session before it. The same for the
\* threads that run CameraHandler._capture_loop.
Workers == {1, 2}
CapThreads == {1, 2}
\* The request threads that can be inside chat() at the same time.
Requests == {1, 2}

\* Mean absolute amplitudes of a frame: at the threshold and just above it.
Volumes == {VOICE_VOLUME_THRESHOLD, VOICE_VOLUME_THRESHOLD + 1}

\* What the recognition of a segment can end with: a text, an empty text,
\* sr.UnknownValueError, sr.RequestError, any other exception.
Outcomes == {"text", "empty", "unknown_value", "request_error", "exception"}
ErrorOutcomes == {"unknown_value", "request_error", "exception"}
Texts == {"a", "b"}

\* Category names of the classifier: two that gesture_text_map maps and one
\* that it does not.
GestureTypes == {"open_palm", "victory", "closed_fist"}

\* What one call of detect_hand_gestures returns: the types of at most
\* max_num_hands observations ([] also when the analysis interval has not
\* passed).
Detections ==
    UNION {[1..n -> GestureTypes] : n \in 0..MEDIAPIPE_MAX_NUM_HANDS}

\* How a response stream ends; generate()'s finally runs in each case.
Endings == {"done", "error", "abandoned"}

\* The scenarios: the horizon of the clock, the frames and runs of a segment,
\* the live worker threads, the observations of the buffer, the live capture
\* threads.
AudioScope ==
    [time |-> LongTime, frames |-> FewFrames, runs |-> FewFrames,
     workers |-> 1, buf |-> MaxBuf, caps |-> 1, requests |-> 1,
     queue |-> MaxQueue, hands |-> 1, types |-> {"open_palm"}]
VoiceTurnScope ==
    [time |-> ShortTime, frames |-> ManyFrames, runs |-> MaxRuns,
     workers |-> 1, buf |-> MaxBuf, caps |-> 1, requests |-> 1,
     queue |-> MaxQueue, hands |-> 1, types |-> {"open_palm"}]
\* One session over a horizon longer than a segment, a recognition that
\* outlasts inactivity_timeout and the frame after it.
SlowScope ==
    [time |-> IdleTime, frames |-> MIN_FRAMES, runs |-> MaxRuns - 1,
     workers |-> 1, buf |-> MaxBuf, caps |-> 1, requests |-> 1,
     queue |-> 1, hands |-> 1, types |-> {"open_palm"}]
\* One label over a horizon longer than the confirmation window.
WindowScope ==
    [time |-> ShortTime, frames |-> FewFrames, runs |-> FewFrames,
     workers |-> 1, buf |-> MaxBuf, caps |-> 1, requests |-> 1,
     queue |-> 1, hands |-> 1, types |-> {"open_palm"}]
\* Two labels, two hands, a short horizon.
LabelScope ==
    [time |-> TwoTicks, frames |-> FewFrames, runs |-> FewFrames,
     workers |-> 1, buf |-> MIN_REPEATS, caps |-> 1, requests |-> 1,
     queue |-> 1, hands |-> MEDIAPIPE_MAX_NUM_HANDS,
     types |-> {"open_palm", "victory"}]
\* A label of gesture_text_map and a label the classifier returns that is
\* not in it.
UnmappedScope ==
    [time |-> TwoTicks, frames |-> FewFrames, runs |-> FewFrames,
     workers |-> 1, buf |-> MIN_REPEATS, caps |-> 1, requests |-> 1,
     queue |-> 1, hands |-> 1, types |-> {"open_palm", "closed_fist"}]
\* Two utterances in one listening session, no camera.
UtteranceQueueScope ==
    [time |-> 2 * SILENCE_THRESHOLD + 1, frames |-> MIN_FRAMES,
     runs |-> MaxRuns - 1, workers |-> 1, buf |-> MIN_REPEATS, caps |-> 0,
     requests |-> 0, queue |-> MaxQueue, hands |-> 1,
     types |-> {"open_palm"}]
\* Two confirmed gestures of different labels, no listening session.
GestureQueueScope ==
    [time |-> OneTick, frames |-> FewFrames, runs |-> FewFrames,
     workers |-> 0, buf |-> MIN_REPEATS, caps |-> 1, requests |-> 0,
     queue |-> MaxQueue, hands |-> 1, types |-> {"open_palm", "victory"}]
\* Two labels in a buffer long enough for one label to be seen four times
\* and the other three times; no chat request.
MixScope ==
    [time |-> TwoTicks, frames |-> FewFrames, runs |-> FewFrames,
     workers |-> 1, buf |-> MaxMix, caps |-> 1, requests |-> 0,
     queue |-> 1, hands |-> 1, types |-> {"open_palm", "victory"}]
\* Two chat requests at a time.
OverlapScope ==
    [time |-> TwoTicks, frames |-> FewFrames, runs |-> FewFrames,
     workers |-> 1, buf |-> MIN_REPEATS, caps |-> 1, requests |-> 2,
     queue |-> 1, hands |-> 1, types |-> {"open_palm"}]
\* A listening session restarted while the worker of the session before it
\* is still alive: two recording_worker threads, no camera.
RestartScope ==
    [time |-> ShortTime, frames |-> MaxRuns - 1, runs |-> MaxRuns - 1,
     workers |-> 2, buf |-> OneObs, caps |-> 0, requests |-> 0,
     queue |-> 1, hands |-> 0, types |-> {"open_palm"}]
\* One listening session over a horizon longer than the audio inactivity
\* timeout, no camera.
AudioExitScope ==
    [time |-> IdleTime, frames |-> MaxRuns, runs |-> MaxRuns - 1,
     workers |-> 1, buf |-> OneObs, caps |-> 0, requests |-> 0,
     queue |-> 1, hands |-> 0, types |-> {"open_palm"}]
\* One capture thread over a horizon longer than the gesture inactivity
\* timeout with no hand in view, no listening session.
CameraExitScope ==
    [time |-> IdleTime, frames |-> MaxRuns - 1, runs |-> MaxRuns - 1,
     workers |-> 0, buf |-> OneObs, caps |-> 1, requests |-> 0,
     queue |-> 1, hands |-> 0, types |-> {"open_palm"}]
\* A horizon longer than the gesture inactivity timeout.
IdleScope ==
    [time |-> IdleTime, frames |-> FewFrames, runs |-> FewFrames,
     workers |-> 1, buf |-> OneObs, caps |-> 1, requests |-> 1,
     queue |-> 1, hands |-> 1, types |-> {"open_palm"}]

VARIABLES
    scope,                 \* the scenario (never changes)
    now,                   \* time.time()
    \* AudioHandler
    is_listening,
    audio_stream,          \* None or "open"
    pyaudio_instance,      \* None or "inst"
    audio_frames,          \* the list of frames, each by its volume
    last_speech_time,
    worker,                \* the locals of each recording_worker thread
    recognized_text_queue,
    \* VisionHandler and its CameraHandler
    is_vision_active,
    is_paused,
    gesture_buffer,        \* the observations, each by 'type' and 'detected_at'
    last_gesture_time,
    last_confirmed_gesture,
    camera,                \* camera_handler.camera: None or "open"
    is_recording,
    capture_thread,        \* camera_handler.capture_thread: 0 (None) or a thread
    cap,                   \* each _capture_loop thread: where it is
    stopper,               \* the request thread inside stop_real_time_analysis
    gesture_text_queue,
    \* chat(): each request thread's place and its gesture_was_active
    chat,
    \* observation (history, not program state)
    obs,                   \* per worker: what it has read since its last emission
    quiet_since,           \* time of the session start, last loud frame or emission
    stops,                 \* is_listening true -> false transitions of the session
    aev,                   \* the last audio operation
    since,                 \* what happened since the last gesture confirmation
    gev,                   \* the last gesture operation
    turn                   \* the last coordinator operations

audioVars == <<is_listening, audio_stream, pyaudio_instance, audio_frames,
               last_speech_time, worker, recognized_text_queue>>
audioObs == <<obs, quiet_since, stops, aev>>
engineVars == <<is_vision_active, is_paused, gesture_buffer, last_gesture_time,
                last_confirmed_gesture>>
cameraVars == <<camera, is_recording, capture_thread, cap, stopper>>
visionVars == <<engineVars, cameraVars, gesture_text_queue>>
visionObs == <<since, gev, turn>>
vars == <<scope, now, audioVars, audioObs, visionVars, visionObs, chat>>

\* ------------------------------------------------------------------ helpers
Max(a, b) == IF a >= b THEN a ELSE b

\* Python truthiness of an optional float ("if silence_start:").
Truthy(x) == x # None /\ x # 0

\* Number of runs of equal elements in a sequence.
Runs(s) ==
    IF s = <<>> THEN 0
    ELSE 1 + Cardinality({i \in 1..(Len(s) - 1) : s[i] # s[i + 1]})

NoWorker == [pc |-> "idle", has_speech |-> FALSE, silence_start |-> None,
             current_time |-> None]
NoObs == [speech |-> FALSE, quiet_from |-> None, due |-> FALSE,
          emitted |-> FALSE, loud_since |-> FALSE]
AEv(op, w) == [op |-> op, w |-> w, overdue |-> FALSE, pushed |-> 0,
               busy |-> FALSE, again |-> FALSE, failed |-> FALSE,
               short |-> FALSE, invoked |-> FALSE, listening |-> FALSE,
               at |-> None, grace |-> FALSE, text |-> Null,
               after_emit |-> FALSE]
NoCap == [pc |-> "idle", current_time |-> None, target |-> 0]
NoStopper == [pc |-> "idle", since |-> None, target |-> 0]
NoChat == [pc |-> "idle", gesture_was_active |-> FALSE, cam_active |-> FALSE]
NoSince == [label |-> Null, resumed |-> FALSE, started |-> FALSE]
GEv(op) == [op |-> op, label |-> Null, fresh |-> 0, dup |-> FALSE,
            resumed |-> FALSE, started |-> FALSE, was_paused |-> FALSE,
            busy |-> FALSE, at |-> None, top |-> Null, count |-> 0,
            last |-> Null, text |-> Null, buf |-> <<>>]
NoTurn == [last |-> "other", owed |-> FALSE, second |-> FALSE,
           verdict |-> "none", first_owed |-> FALSE]

\* ------------------------------------------------------------- web_app
PopLast(q) == [text |-> q[Len(q)], rest |-> SubSeq(q, 1, Len(q) - 1)]

\* The items of q are the first items of r, in the same order.
IsPrefix(q, r) == Len(q) <= Len(r) /\ SubSeq(r, 1, Len(q)) = q

\* "text = recognized_text_queue.pop(0)", "text = gesture_text_queue.pop(0)"
Pop(q) == [text |-> q[1], rest |-> Tail(q)]

\* ------------------------------------------------------ recording_worker
\* "if volume > self.volume_threshold"
IsSpeech(volume) == volume > VOICE_VOLUME_THRESHOLD

\* "if has_speech and silence_start is None: silence_start = current_time"
SilenceStart(wk, volume, t) ==
    IF IsSpeech(volume) THEN None
    ELSE IF wk.has_speech /\ wk.silence_start = None THEN t
    ELSE wk.silence_start

SilenceConfirmedLate(ss, hs, t) ==
    Truthy(ss) /\ t - ss > SILENCE_THRESHOLD /\ hs

\* "if silence_start: ... if silence_duration >= self.silence_threshold and has_speech"
SilenceConfirmed(ss, hs, t) ==
    Truthy(ss) /\ t - ss >= SILENCE_THRESHOLD /\ hs

InactiveLate(t, lst) == t - lst > INACTIVITY_TIMEOUT + 1

InactiveEarly(t, lst) == t - lst >= SILENCE_THRESHOLD

\* "if current_time - self.last_speech_time > self.inactivity_timeout"
Inactive(t, lst) == t - lst > INACTIVITY_TIMEOUT

KeepSpeechForNextPhrase(wk) ==
    [wk EXCEPT !.pc = "loop", !.silence_start = None, !.current_time = None]

\* The locals after "has_speech = False; silence_start = None".
ResetForNextPhrase(wk) ==
    [wk EXCEPT !.pc = "loop", !.has_speech = FALSE, !.silence_start = None,
               !.current_time = None]

NeverTooShort(frames) == FALSE

\* _process_recorded_audio: "if not self.audio_frames or
\* len(self.audio_frames) < 10: return"
TooShort(frames) == frames = <<>> \/ Len(frames) < MIN_FRAMES

RecognizedDespiteError(frames, outcome, text) ==
    IF TooShort(frames) THEN <<>> ELSE <<text>>

\* _process_recorded_audio: what reaches the text callback.
Recognized(frames, outcome, text) ==
    IF TooShort(frames) THEN <<>>
    ELSE IF outcome = "text" THEN <<text>>
    ELSE <<>>

\* The observer's account of one frame read by a worker at time t: whether a
\* loud frame was captured since the start or the last emission, since when
\* the frames after it have been quiet, and whether an emission is due.
ObserveFrame(o, volume, t) ==
    IF volume > VOICE_VOLUME_THRESHOLD
    THEN [o EXCEPT !.speech = TRUE, !.quiet_from = None, !.due = FALSE,
                   !.loud_since = TRUE]
    ELSE LET qf == IF o.speech /\ o.quiet_from = None THEN t ELSE o.quiet_from
             due == o.speech /\ qf # None /\ t - qf >= SILENCE_THRESHOLD
         IN  [o EXCEPT !.speech = IF due THEN FALSE ELSE o.speech,
                       !.quiet_from = IF due THEN None ELSE qf,
                       !.due = due]

\* ------------------------------------------------------ gesture engine
Count(buf, ty) == Cardinality({i \in DOMAIN buf : buf[i].type = ty})
FirstAt(buf, ty) ==
    CHOOSE i \in DOMAIN buf :
        buf[i].type = ty /\ \A j \in DOMAIN buf : buf[j].type = ty => i <= j
TypesOf(buf) == {buf[i].type : i \in DOMAIN buf}

MostCommonNewest(buf) ==
    CHOOSE ty \in TypesOf(buf) :
        \A other \in TypesOf(buf) :
            \/ Count(buf, ty) > Count(buf, other)
            \/ /\ Count(buf, ty) = Count(buf, other)
               /\ FirstAt(buf, ty) >= FirstAt(buf, other)

\* "max(gesture_counts, key=gesture_counts.get)": the dict keeps the order of
\* first appearance and max returns the first key with the greatest count.
MostCommon(buf) ==
    CHOOSE ty \in TypesOf(buf) :
        \A other \in TypesOf(buf) :
            \/ Count(buf, ty) > Count(buf, other)
            \/ /\ Count(buf, ty) = Count(buf, other)
               /\ FirstAt(buf, ty) <= FirstAt(buf, other)

\* gesture_text_map
GestureTextMap ==
    [ty \in {"open_palm", "victory", "thumb_up", "pointing_up"} |->
        CASE ty = "open_palm" -> "Privet"
          [] ty = "victory" -> "Pobeda"
          [] ty = "thumb_up" -> "Super"
          [] ty = "pointing_up" -> "Vnimanie"]

\* "for gesture in gestures: gesture['detected_at'] = current_time; append"
Stamped(gestures, t) ==
    [i \in DOMAIN gestures |-> [type |-> gestures[i], detected_at |-> t]]

\* "[g for g in self.gesture_buffer if current_time - g['detected_at'] <=
\*   self.config.gesture_confirmation_time]"
InWindow(g, t) == t - g.detected_at <= GESTURE_CONFIRMATION_TIME
KeepAll(buf, t) == buf
Prune(buf, t) == SelectSeq(buf, LAMBDA g : InWindow(g, t))

ConfirmableAgain(count, ty, lcg) == count >= MIN_REPEATS
ConfirmableLate(count, ty, lcg) == count > MIN_REPEATS /\ ty # lcg

\* "if count >= 3 and most_common_gesture != self.last_confirmed_gesture"
Confirmable(count, ty, lcg) == count >= MIN_REPEATS /\ ty # lcg

CheckKeepingOthers(buf, lcg) ==
    IF buf = <<>>
    THEN [fired |-> FALSE, type |-> Null, text |-> Null, buffer |-> buf,
          lcg |-> lcg]
    ELSE LET ty == MostCommon(buf)
         IN  IF Confirmable(Count(buf, ty), ty, lcg)
                /\ ty \in DOMAIN GestureTextMap
             THEN [fired |-> TRUE, type |-> ty, text |-> GestureTextMap[ty],
                   buffer |-> SelectSeq(buf, LAMBDA g : g.type # ty),
                   lcg |-> ty]
             ELSE [fired |-> FALSE, type |-> Null, text |-> Null,
                   buffer |-> buf, lcg |-> lcg]

\* _check_gesture_confirmation on the buffer buf: whether the callback is
\* invoked, with what, and the buffer and last_confirmed_gesture it leaves.
CheckGestureConfirmation(buf, lcg) ==
    IF buf = <<>>
    THEN [fired |-> FALSE, type |-> Null, text |-> Null, buffer |-> buf,
          lcg |-> lcg]
    ELSE LET ty == MostCommon(buf)
         IN  IF Confirmable(Count(buf, ty), ty, lcg)
                /\ ty \in DOMAIN GestureTextMap
             THEN [fired |-> TRUE, type |-> ty, text |-> GestureTextMap[ty],
                   buffer |-> <<>>, lcg |-> ty]
             ELSE [fired |-> FALSE, type |-> Null, text |-> Null,
                   buffer |-> buf, lcg |-> lcg]

GestureInactiveAtTimeout(t, lgt) == t - lgt >= GESTURE_INACTIVITY_TIMEOUT

\* "if current_time - self.last_gesture_time > gesture_inactivity_timeout"
GestureInactive(t, lgt) == t - lgt > GESTURE_INACTIVITY_TIMEOUT

FrameOutcomeUnpaused(paused, t, lgt) ==
    IF GestureInactive(t, lgt) THEN "inactive_stop" ELSE "frame"

\* The head of _frame_analysis_callback: the pause test, then the inactivity
\* test, then the analysis of the frame.
FrameOutcome(paused, t, lgt) ==
    IF paused THEN "frame_paused"
    ELSE IF GestureInactive(t, lgt) THEN "inactive_stop"
    ELSE "frame"

\* The events of a frame callback's head.
FrameOps == {"frame_paused", "inactive_stop", "frame"}

\* threading.Thread.is_alive() of a capture thread.
CapAlive(c) == c # 0 /\ cap[c].pc \in {"loop", "detect", "join"}

\* The observations of type ty that the buffer buf holds at time t within the
\* trailing confirmation window [t - confirmation_time, t].
Fresh(buf, ty, t) ==
    Cardinality({i \in DOMAIN buf :
        /\ buf[i].type = ty
        /\ buf[i].detected_at <= t
        /\ buf[i].detected_at >= t - GESTURE_CONFIRMATION_TIME})

InitAll ==
    /\ now = 1
    /\ is_listening = FALSE
    /\ audio_stream = Null
    /\ pyaudio_instance = Null
    /\ audio_frames = <<>>
    /\ last_speech_time = None
    /\ worker = [w \in Workers |-> NoWorker]
    /\ recognized_text_queue = <<>>
    /\ is_vision_active = FALSE
    /\ is_paused = FALSE
    /\ gesture_buffer = <<>>
    /\ last_gesture_time = 1
    /\ last_confirmed_gesture = Null
    /\ camera = "open"
    /\ is_recording = FALSE
    /\ capture_thread = 0
    /\ cap = [c \in CapThreads |-> NoCap]
    /\ stopper = NoStopper
    /\ gesture_text_queue = <<>>
    /\ chat = [r \in Requests |-> NoChat]
    /\ obs = [w \in Workers |-> NoObs]
    /\ quiet_since = None
    /\ stops = 0
    /\ aev = AEv("none", 0)
    /\ since = NoSince
    /\ gev = GEv("none")
    /\ turn = NoTurn

\* The clock advances.
Tick ==
    /\ now < scope.time
    /\ now' = now + 1
    /\ gev' = GEv("none")
    /\ UNCHANGED <<scope, audioVars, audioObs, visionVars, since, turn, chat>>

\* ------------------------------------------------------------ AudioHandler
NeverListening == FALSE

\* start_listening: "if self.is_listening: return {'status':
\* 'already_listening'}"; resume_listening makes the same test.
AlreadyListening == is_listening

\* start_listening() or resume_listening() while listening:
\* {'status': 'already_listening'}.
StartListeningAgain ==
    /\ AlreadyListening
    /\ aev' = [AEv("already_listening", 0) EXCEPT !.again = is_listening]
    /\ UNCHANGED <<scope, now, audioVars, obs, quiet_since, stops,
                   visionVars, visionObs, chat>>

AliveWorkers == {w \in Workers : worker[w].pc \in {"loop", "recognize"}}
FreeWorkers == Workers \ AliveWorkers

\* start_listening() from not listening: the stream is opened and a new
\* recording_worker thread is started.
StartListening ==
    /\ ~AlreadyListening
    /\ Cardinality(AliveWorkers) < scope.workers
    /\ LET w == CHOOSE x \in FreeWorkers : \A y \in FreeWorkers : x <= y
       IN  /\ worker' = [worker EXCEPT ![w] = [NoWorker EXCEPT !.pc = "loop"]]
           /\ obs' = [obs EXCEPT ![w] = NoObs]
           /\ aev' = [AEv("started", w) EXCEPT !.again = is_listening]
    /\ is_listening' = TRUE
    /\ audio_frames' = <<>>
    /\ last_speech_time' = now
    /\ pyaudio_instance' = "inst"
    /\ audio_stream' = "open"
    /\ quiet_since' = now
    /\ stops' = 0
    /\ UNCHANGED <<scope, now, recognized_text_queue, visionVars, visionObs,
                   chat>>

\* start_listening() when pyaudio_instance.open raises: the except branch
\* (in a scenario that has listening sessions).
StartListeningFails ==
    /\ scope.workers > 0
    /\ ~AlreadyListening
    /\ is_listening' = FALSE
    /\ audio_frames' = <<>>
    /\ last_speech_time' = now
    /\ pyaudio_instance' = "inst"
    /\ aev' = [AEv("start_error", 0) EXCEPT !.again = is_listening]
    /\ UNCHANGED <<scope, now, audio_stream, worker, recognized_text_queue,
                   obs, quiet_since, stops, visionVars, visionObs, chat>>

\* The last audio operation was the frame at which the worker stopped the
\* session for inactivity and left its loop.
WorkerTimedOut == aev.op = "frame" /\ worker[aev.w].pc = "exited"

StopUnguarded == FALSE

\* stop_listening: "if not self.is_listening: return None"
NotListening == ~is_listening

\* stop_listening() called by a request thread.
StopListening ==
    /\ aev' = AEv(IF WorkerTimedOut THEN "stop_after_exit" ELSE "stop", 0)
    /\ IF NotListening
       THEN UNCHANGED <<audioVars, stops>>
       ELSE /\ is_listening' = FALSE
            /\ audio_stream' = Null
            /\ pyaudio_instance' = Null
            /\ stops' = stops + 1
            /\ UNCHANGED <<audio_frames, last_speech_time, worker,
                           recognized_text_queue>>
    /\ UNCHANGED <<scope, now, obs, quiet_since, visionVars, visionObs, chat>>

\* "while self.is_listening" found false: the worker leaves its loop.
AudioExit(w) ==
    /\ worker[w].pc = "loop"
    /\ ~is_listening
    /\ worker' = [worker EXCEPT ![w].pc = "exited"]
    /\ aev' = AEv("exit", w)
    /\ UNCHANGED <<scope, now, is_listening, audio_stream, pyaudio_instance,
                   audio_frames, last_speech_time, recognized_text_queue,
                   obs, quiet_since, stops, visionVars, visionObs, chat>>

\* self.audio_stream.read raises: "except Exception as e: print(...); break".
\* The worker leaves its loop; nothing else is assigned.
AudioReadFail(w) ==
    /\ worker[w].pc = "loop"
    /\ is_listening
    /\ audio_stream # Null
    /\ worker' = [worker EXCEPT ![w].pc = "exited"]
    /\ aev' = AEv("read_failed", w)
    /\ UNCHANGED <<scope, now, is_listening, audio_stream, pyaudio_instance,
                   audio_frames, last_speech_time, recognized_text_queue,
                   obs, quiet_since, stops, visionVars, visionObs, chat>>

\* One iteration of the loop up to the call of _process_recorded_audio or, when
\* there is none, to its end (the inactivity check and stop_listening()).
AudioRead(w, volume) ==
    /\ worker[w].pc = "loop"
    /\ is_listening
    /\ audio_stream # Null
    /\ Len(audio_frames) < scope.frames
    /\ Runs(Append(audio_frames, volume)) <= scope.runs
    /\ LET t == now
           wk == worker[w]
           hs == IsSpeech(volume) \/ wk.has_speech
           ss == SilenceStart(wk, volume, t)
           lst == IF IsSpeech(volume) THEN t ELSE last_speech_time
           emit == ~IsSpeech(volume) /\ SilenceConfirmed(ss, hs, t)
           o == ObserveFrame(obs[w], volume, t)
           qs == IF volume > VOICE_VOLUME_THRESHOLD \/ o.due
                 THEN Max(quiet_since, t) ELSE quiet_since
       IN  /\ audio_frames' = Append(audio_frames, volume)
           /\ last_speech_time' = lst
           /\ quiet_since' = qs
           /\ obs' = [obs EXCEPT ![w] = [o EXCEPT !.emitted = emit]]
           /\ IF emit
              THEN /\ worker' = [worker EXCEPT ![w] =
                          [pc |-> "recognize", has_speech |-> hs,
                           silence_start |-> ss, current_time |-> t]]
                   /\ aev' = AEv("emit", w)
                   /\ UNCHANGED <<is_listening, audio_stream, pyaudio_instance,
                                  stops>>
              ELSE /\ aev' = [AEv("frame", w) EXCEPT
                                 !.overdue = t - qs > INACTIVITY_TIMEOUT,
                                 !.after_emit = /\ aev.op = "emitted"
                                                /\ aev.w = w,
                                 !.grace = /\ aev.op = "emitted"
                                           /\ aev.w = w
                                           /\ aev.invoked
                                           /\ t - aev.at <= INACTIVITY_TIMEOUT]
                   /\ IF Inactive(t, lst)
                      THEN /\ is_listening' = FALSE
                           /\ audio_stream' = Null
                           /\ pyaudio_instance' = Null
                           /\ stops' = stops + 1
                           /\ worker' = [worker EXCEPT ![w] =
                                  [pc |-> "exited", has_speech |-> hs,
                                   silence_start |-> ss, current_time |-> None]]
                      ELSE /\ worker' = [worker EXCEPT ![w] =
                                  [pc |-> "loop", has_speech |-> hs,
                                   silence_start |-> ss, current_time |-> None]]
                           /\ UNCHANGED <<is_listening, audio_stream,
                                          pyaudio_instance, stops>>
    /\ UNCHANGED <<scope, now, recognized_text_queue, visionVars, visionObs,
                   chat>>

\* _process_recorded_audio returns and the iteration ends: the text callback,
\* the reset for the next phrase, the refresh of last_speech_time to the
\* current_time of the iteration, the inactivity check.
AudioRecognize(w, outcome, text) ==
    /\ worker[w].pc = "recognize"
    /\ LET t == worker[w].current_time
           pushed == Recognized(audio_frames, outcome, text)
           timeout == Inactive(t, t)
       IN  /\ Len(recognized_text_queue) + Len(pushed) <= scope.queue
           /\ recognized_text_queue' = recognized_text_queue \o pushed
           /\ audio_frames' = <<>>
           /\ last_speech_time' = t
           /\ aev' = [AEv("emitted", w) EXCEPT
                         !.overdue = t - quiet_since > INACTIVITY_TIMEOUT,
                         !.pushed = Len(pushed),
                         !.failed = outcome \in ErrorOutcomes,
                         !.short = Len(audio_frames) < MIN_FRAMES,
                         !.invoked = ~TooShort(audio_frames),
                         !.listening = is_listening,
                         !.at = now,
                         !.busy = \E r \in Requests :
                                     chat[r].pc = "streaming"]
           /\ obs' = [obs EXCEPT ![w].loud_since = FALSE]
           /\ worker' = [worker EXCEPT ![w] =
                  [ResetForNextPhrase(worker[w]) EXCEPT
                      !.pc = IF timeout THEN "exited" ELSE "loop"]]
           /\ IF timeout /\ is_listening
              THEN /\ is_listening' = FALSE
                   /\ audio_stream' = Null
                   /\ pyaudio_instance' = Null
                   /\ stops' = stops + 1
              ELSE UNCHANGED <<is_listening, audio_stream, pyaudio_instance,
                               stops>>
    /\ UNCHANGED <<scope, now, quiet_since, visionVars, visionObs, chat>>

PollAlwaysOpen == TRUE

\* get_recognized_text: "if not audio_handler.is_listening: return
\* jsonify({'status': 'stopped', ...})"
VoicePollOpen == is_listening

\* GET /api/voice/get-text
GetRecognizedText ==
    /\ IF VoicePollOpen /\ recognized_text_queue # <<>>
       THEN /\ recognized_text_queue' = Pop(recognized_text_queue).rest
            /\ aev' = [AEv("polled", 0) EXCEPT
                          !.text = Pop(recognized_text_queue).text]
       ELSE UNCHANGED <<recognized_text_queue, aev>>
    /\ UNCHANGED <<scope, now, is_listening, audio_stream, pyaudio_instance,
                   audio_frames, last_speech_time, worker, obs, quiet_since,
                   stops, visionVars, visionObs, chat>>

\* ---------------------------------------- VisionHandler / CameraHandler
Engine == <<is_paused, gesture_buffer, last_gesture_time,
            last_confirmed_gesture>>

\* A generation is in progress that started with gesture capture active.
Generating == \E r \in Requests : chat[r].pc = "streaming" /\ chat[r].cam_active

\* The thread slots a new capture thread can take.
FreeCaps ==
    {c \in CapThreads :
        ~CapAlive(c) /\ stopper.target # c
        /\ \A d \in CapThreads : cap[d].target # c}

\* start_real_time_analysis() with camera_handler.camera None: returns False.
StartAnalysisRefused ==
    /\ camera = Null
    /\ gev' = GEv("none")
    /\ turn' = NoTurn
    /\ UNCHANGED <<scope, now, audioVars, audioObs, visionVars, since, chat>>

\* start_real_time_analysis(): the reset of the confirmation state, then
\* start_capture (a new capture thread unless is_recording).
StartAnalysis ==
    /\ camera # Null
    /\ \/ is_recording
       \/ /\ Cardinality({c \in CapThreads : CapAlive(c)}) < scope.caps
          /\ FreeCaps # {}
    /\ gesture_buffer' = <<>>
    /\ last_gesture_time' = now
    /\ last_confirmed_gesture' = Null
    /\ is_vision_active' = TRUE
    /\ IF is_recording
       THEN UNCHANGED <<is_recording, capture_thread, cap>>
       ELSE LET c == CHOOSE x \in FreeCaps : \A y \in FreeCaps : x <= y
            IN  /\ is_recording' = TRUE
                /\ capture_thread' = c
                /\ cap' = [cap EXCEPT ![c] = [NoCap EXCEPT !.pc = "loop"]]
    /\ since' = IF since.label = Null THEN since
                ELSE [since EXCEPT !.started = TRUE]
    /\ gev' = GEv("none")
    /\ turn' = NoTurn
    /\ UNCHANGED <<scope, now, audioVars, audioObs, is_paused, camera,
                   stopper, gesture_text_queue, chat>>

\* The capture thread stopped the engine for inactivity and left its loop:
\* recording is off, the thread reference and the camera are still there and
\* no request thread is inside stop_capture.
CameraTimedOut ==
    /\ ~is_recording /\ camera # Null /\ stopper.pc = "idle"
    /\ capture_thread # 0 /\ ~CapAlive(capture_thread)

\* stop_real_time_analysis() called by a request thread, up to the join of
\* stop_capture (to its end when there is no live thread to join).
StopAnalysis ==
    /\ stopper.pc = "idle"
    /\ is_vision_active' = FALSE
    /\ is_paused' = FALSE
    /\ is_recording' = FALSE
    /\ IF CapAlive(capture_thread)
       THEN /\ stopper' = [pc |-> "join", since |-> now,
                           target |-> capture_thread]
            /\ UNCHANGED <<capture_thread, camera>>
       ELSE /\ capture_thread' = 0
            /\ camera' = Null
            /\ UNCHANGED stopper
    /\ gev' = GEv(IF CameraTimedOut THEN "stop_after_exit" ELSE "none")
    /\ turn' = NoTurn
    /\ UNCHANGED <<scope, now, audioVars, audioObs, gesture_buffer,
                   last_gesture_time, last_confirmed_gesture, cap,
                   gesture_text_queue, since, chat>>

\* stop_capture after the join (the thread ended or 2.0 s passed): the thread
\* reference is dropped and the camera released.
StopAnalysisJoined ==
    /\ stopper.pc = "join"
    /\ ~CapAlive(stopper.target) \/ now - stopper.since >= JOIN_TIMEOUT
    /\ capture_thread' = 0
    /\ camera' = Null
    /\ stopper' = NoStopper
    /\ gev' = GEv("none")
    /\ turn' = NoTurn
    /\ UNCHANGED <<scope, now, audioVars, audioObs, engineVars, is_recording,
                   cap, gesture_text_queue, since, chat>>

\* _capture_loop: "while self.is_recording and self.camera is not None" fails.
CapExit(c) ==
    /\ cap[c].pc = "loop"
    /\ ~(is_recording /\ camera # Null)
    /\ cap' = [cap EXCEPT ![c] = NoCap]
    /\ gev' = GEv("none")
    /\ turn' = NoTurn
    /\ UNCHANGED <<scope, now, audioVars, audioObs, engineVars, camera,
                   is_recording, capture_thread, stopper, gesture_text_queue,
                   since, chat>>

\* _capture_loop: camera.read() reports failure: break.
CapReadFail(c) ==
    /\ cap[c].pc = "loop"
    /\ is_recording /\ camera # Null
    /\ cap' = [cap EXCEPT ![c] = NoCap]
    /\ gev' = GEv("none")
    /\ turn' = NoTurn
    /\ UNCHANGED <<scope, now, audioVars, audioObs, engineVars, camera,
                   is_recording, capture_thread, stopper, gesture_text_queue,
                   since, chat>>

\* _frame_analysis_callback up to the detection: the pause check and the
\* inactivity check (stop_real_time_analysis() called by the capture thread:
\* joining itself raises RuntimeError, caught, before the camera is released).
CapFrame(c) ==
    /\ cap[c].pc = "loop"
    /\ is_recording /\ camera # Null
    /\ turn' = NoTurn
    /\ gev' = GEv(FrameOutcome(is_paused, now, last_gesture_time))
    /\ IF gev'.op = "frame_paused"
       THEN UNCHANGED <<engineVars, cameraVars>>
       ELSE IF gev'.op = "inactive_stop"
       THEN /\ is_vision_active' = FALSE
            /\ is_paused' = FALSE
            /\ is_recording' = FALSE
            /\ IF capture_thread = c
               THEN UNCHANGED <<capture_thread, camera, cap>>
               ELSE IF CapAlive(capture_thread)
               THEN /\ cap' = [cap EXCEPT ![c] =
                           [pc |-> "join", current_time |-> now,
                            target |-> capture_thread]]
                    /\ UNCHANGED <<capture_thread, camera>>
               ELSE /\ capture_thread' = 0
                    /\ camera' = Null
                    /\ UNCHANGED cap
            /\ UNCHANGED <<gesture_buffer, last_gesture_time,
                           last_confirmed_gesture, stopper>>
       ELSE /\ cap' = [cap EXCEPT ![c] =
                   [pc |-> "detect", current_time |-> now, target |-> 0]]
            /\ UNCHANGED <<engineVars, camera, is_recording, capture_thread,
                           stopper>>
    /\ UNCHANGED <<scope, now, audioVars, audioObs, gesture_text_queue, since,
                   chat>>

\* stop_capture called by a capture thread that is not camera_handler's
\* thread, after its join.
CapJoined(c) ==
    /\ cap[c].pc = "join"
    /\ ~CapAlive(cap[c].target) \/ now - cap[c].current_time >= JOIN_TIMEOUT
    /\ capture_thread' = 0
    /\ camera' = Null
    /\ cap' = [cap EXCEPT ![c] = [NoCap EXCEPT !.pc = "loop"]]
    /\ gev' = GEv("none")
    /\ turn' = NoTurn
    /\ UNCHANGED <<scope, now, audioVars, audioObs, engineVars, is_recording,
                   stopper, gesture_text_queue, since, chat>>

\* _frame_analysis_callback from the detection on: the observations are
\* stamped and appended, the buffer pruned, the confirmation checked.
CapDetect(c, gestures) ==
    /\ cap[c].pc = "detect"
    /\ Len(gestures) <= scope.hands
    /\ \A i \in 1..Len(gestures) : gestures[i] \in scope.types
    /\ LET t == cap[c].current_time
           appended == gesture_buffer \o Stamped(gestures, t)
           res == CheckGestureConfirmation(Prune(appended, t),
                                           last_confirmed_gesture)
       IN  IF gestures = <<>>
           THEN /\ gev' = GEv("none")
                /\ UNCHANGED <<engineVars, gesture_text_queue, since>>
           ELSE /\ Len(Prune(appended, t)) <= scope.buf
                /\ last_gesture_time' = t
                /\ gesture_buffer' = res.buffer
                /\ last_confirmed_gesture' = res.lcg
                /\ IF res.fired
                   THEN /\ Len(gesture_text_queue) < scope.queue
                        /\ gesture_text_queue' =
                               Append(gesture_text_queue, res.text)
                        /\ gev' = [GEv("confirmed") EXCEPT
                               !.label = res.type,
                               !.top = MostCommon(Prune(appended, t)),
                               !.count = Count(Prune(appended, t),
                                   MostCommon(Prune(appended, t))),
                               !.last = last_confirmed_gesture,
                               !.buf = Prune(appended, t),
                               !.fresh = Fresh(appended, res.type, t),
                               !.dup = (since.label = res.type),
                               !.resumed = since.resumed,
                               !.started = since.started,
                               !.busy = Generating]
                        /\ since' = [label |-> res.type, resumed |-> FALSE,
                                     started |-> FALSE]
                   ELSE /\ gev' = GEv("none")
                        /\ UNCHANGED <<gesture_text_queue, since>>
                /\ UNCHANGED <<is_vision_active, is_paused>>
    /\ cap' = [cap EXCEPT ![c] = [NoCap EXCEPT !.pc = "loop"]]
    /\ turn' = NoTurn
    /\ UNCHANGED <<scope, now, audioVars, audioObs, camera, is_recording,
                   capture_thread, stopper, chat>>

\* get_gesture_text: "if not camera_handler.capture_thread or not
\* camera_handler.capture_thread.is_alive(): return jsonify({'status':
\* 'stopped', ...})"
GesturePollOpen == CapAlive(capture_thread)

\* GET /api/gesture/get-text
GetGestureText ==
    /\ IF GesturePollOpen /\ gesture_text_queue # <<>>
       THEN /\ gesture_text_queue' = Pop(gesture_text_queue).rest
            /\ gev' = [GEv("polled") EXCEPT
                          !.text = Pop(gesture_text_queue).text]
       ELSE /\ gev' = GEv("none")
            /\ UNCHANGED gesture_text_queue
    /\ UNCHANGED <<scope, now, audioVars, audioObs, engineVars, cameraVars,
                   since, turn, chat>>

\* ------------------------------------------------------------------ chat()
\* "gesture_was_active = vision_handler.is_vision_active and not
\*  vision_handler.is_paused"
GestureWasActive == is_vision_active /\ ~is_paused

\* chat(): gesture_was_active is read.
ChatCheck(r) ==
    /\ chat[r].pc = "idle"
    /\ r <= scope.requests
    /\ chat' = [chat EXCEPT ![r] =
           [pc |-> "checked", gesture_was_active |-> GestureWasActive,
            cam_active |-> is_vision_active]]
    /\ turn' = [last |-> "mid", owed |-> FALSE,
                second |-> (turn.last = "begin"), verdict |-> "none",
                first_owed |-> turn.owed]
    /\ gev' = GEv("none")
    /\ UNCHANGED <<scope, now, audioVars, audioObs, visionVars, since>>

\* chat(): "if gesture_was_active: vision_handler.pause_analysis()", and the
\* streaming response is returned.
ChatPause(r) ==
    /\ chat[r].pc = "checked"
    /\ chat' = [chat EXCEPT ![r].pc = "streaming"]
    /\ is_paused' = IF chat[r].gesture_was_active THEN TRUE ELSE is_paused
    /\ gev' = GEv("none")
    /\ turn' = IF turn.last = "mid"
               THEN [last |-> "begin", owed |-> chat[r].gesture_was_active,
                     second |-> turn.second,
                     verdict |-> IF ~turn.second THEN "none"
                                 ELSE IF is_paused' = is_paused
                                 THEN "begin2_same" ELSE "begin2_changed",
                     first_owed |-> turn.first_owed]
               ELSE NoTurn
    /\ UNCHANGED <<scope, now, audioVars, audioObs, is_vision_active,
                   gesture_buffer, last_gesture_time, last_confirmed_gesture,
                   cameraVars, gesture_text_queue, since>>

ToggledEngine ==
    IF is_vision_active
    THEN <<~is_paused, <<>>, now, last_confirmed_gesture>>
    ELSE Engine

\* resume_analysis(): "if self.is_vision_active: ..."
ResumedEngine ==
    IF is_vision_active
    THEN <<FALSE, <<>>, now, last_confirmed_gesture>>
    ELSE Engine

\* generate() ends, however it ends: "finally: if gesture_was_active:
\* vision_handler.resume_analysis()".
ChatEnd(r, ending) ==
    /\ chat[r].pc = "streaming"
    /\ chat' = [chat EXCEPT ![r] = NoChat]
    /\ LET after == IF chat[r].gesture_was_active THEN ResumedEngine
                    ELSE Engine
       IN  /\ is_paused' = after[1]
           /\ gesture_buffer' = after[2]
           /\ last_gesture_time' = after[3]
           /\ last_confirmed_gesture' = after[4]
           /\ turn' = [last |-> "end", owed |-> chat[r].gesture_was_active,
                       second |-> (turn.last = "end"),
                       verdict |-> IF turn.last # "end" THEN "none"
                                   ELSE IF after = Engine THEN "end2_same"
                                   ELSE IF <<after[1], after[2], after[4]>> =
                                           <<is_paused, gesture_buffer,
                                             last_confirmed_gesture>>
                                   THEN "end2_timer" ELSE "end2_changed",
                       first_owed |-> turn.owed]
    /\ gev' = IF chat[r].gesture_was_active /\ is_vision_active
              THEN [GEv("resumed") EXCEPT !.was_paused = is_paused,
                                          !.at = now]
              ELSE GEv("none")
    /\ since' = IF chat[r].gesture_was_active /\ since.label # Null
                THEN [since EXCEPT !.resumed = TRUE] ELSE since
    /\ UNCHANGED <<scope, now, audioVars, audioObs, is_vision_active,
                   cameraVars, gesture_text_queue>>

NextVision ==
    \/ StartAnalysis
    \/ StartAnalysisRefused
    \/ StopAnalysis
    \/ StopAnalysisJoined
    \/ GetGestureText
    \/ \E c \in CapThreads : CapExit(c)
    \/ \E c \in CapThreads : CapReadFail(c)
    \/ \E c \in CapThreads : CapFrame(c)
    \/ \E c \in CapThreads, gestures \in Detections : CapDetect(c, gestures)

NextChat ==
    \/ \E r \in Requests : ChatCheck(r)
    \/ \E r \in Requests : ChatPause(r)
    \/ \E r \in Requests, ending \in Endings : ChatEnd(r, ending)

NextAudio ==
    \/ StartListening
    \/ StartListeningAgain
    \/ StartListeningFails
    \/ StopListening
    \/ GetRecognizedText
    \/ \E w \in Workers : AudioExit(w)
    \/ \E w \in Workers : AudioReadFail(w)
    \/ \E w \in Workers, volume \in Volumes : AudioRead(w, volume)
    \/ \E w \in Workers, outcome \in Outcomes, text \in Texts :
          AudioRecognize(w, outcome, text)

InitAudio == scope = AudioScope /\ InitAll
AudioNext == Tick \/ NextAudio
AudioSpec == InitAudio /\ [][AudioNext]_vars

InitRestart == scope = RestartScope /\ InitAll
RestartSpec == InitRestart /\ [][AudioNext]_vars

InitSlow == scope = SlowScope /\ InitAll
SlowSpec == InitSlow /\ [][AudioNext]_vars

GestureNext == Tick \/ NextVision \/ NextChat

InitWindow == scope = WindowScope /\ InitAll
WindowSpec == InitWindow /\ [][GestureNext]_vars

InitLabel == scope = LabelScope /\ InitAll
LabelSpec == InitLabel /\ [][GestureNext]_vars

InitUnmapped == scope = UnmappedScope /\ InitAll
UnmappedSpec == InitUnmapped /\ [][GestureNext]_vars

\* Either queue with its producer and its polls.
QueueNext == Tick \/ NextAudio \/ NextVision
InitQueue == scope \in {UtteranceQueueScope, GestureQueueScope} /\ InitAll
QueueSpec == InitQueue /\ [][QueueNext]_vars

\* The voice and camera endpoints with their threads, past the inactivity
\* timeout of the listening session or of the gesture engine.
InitExit == scope \in {AudioExitScope, CameraExitScope} /\ InitAll
ExitSpec == InitExit /\ [][QueueNext]_vars

\* The camera endpoints and the capture thread, no chat.
CameraNext == Tick \/ NextVision
InitMix == scope = MixScope /\ InitAll
MixSpec == InitMix /\ [][CameraNext]_vars

InitOverlap == scope = OverlapScope /\ InitAll
OverlapSpec == InitOverlap /\ [][GestureNext]_vars

InitIdle == scope = IdleScope /\ InitAll
IdleSpec == InitIdle /\ [][GestureNext]_vars

\* The audio session next to chat requests.
VoiceTurnNext == Tick \/ NextAudio \/ NextChat
InitVoiceTurn == scope = VoiceTurnScope /\ InitAll
VoiceTurnSpec == InitVoiceTurn /\ [][VoiceTurnNext]_vars


\* ------------------------------------------------------------------ claims
\* C1: after every frame a recording worker has read, the segment is handed
\* to recognition if and only if a frame above the volume threshold was
\* captured since the start or the previous emission and the frames after it
\* have stayed at or below the threshold for at least silence_threshold;
\* silence with no speech before it causes no emission.
C1_EmitIffSpeechThenSilence ==
    \A w \in Workers : obs[w].emitted = obs[w].due

\* C1 witness: a worker hands over a segment that is due.
C1_Witness ==
    \E w \in Workers :
        /\ worker[w].pc = "recognize"
        /\ obs[w].emitted /\ obs[w].due
        /\ \E i \in DOMAIN audio_frames : audio_frames[i] > VOICE_VOLUME_THRESHOLD

\* C2: right after an emission audio_frames is empty, has_speech is false and
\* silence_start is unset, and a worker starts an emission only when a frame
\* above the threshold was captured since its previous emission.
C2_NoDoubleEmission ==
    \A w \in Workers :
        /\ (aev.op = "emitted" /\ aev.w = w) =>
               /\ audio_frames = <<>>
               /\ ~worker[w].has_speech
               /\ worker[w].silence_start = None
        /\ (aev.op = "emit" /\ aev.w = w) => obs[w].loud_since

\* C2 witness: an emission has just ended and the worker loops on.
C2_Witness ==
    /\ aev.op = "emitted"
    /\ worker[aev.w].pc = "loop"
    /\ is_listening

\* C3: once a worker has read a frame more than inactivity_timeout after the
\* latest of the session start, the last frame above the threshold and the
\* last emission, the session is not listening, that being its only
\* transition to not-listening, the stream and the PyAudio instance are
\* released and the loop has exited.
C3_InactivityStopsOnce ==
    aev.overdue =>
        /\ ~is_listening
        /\ audio_stream = Null
        /\ pyaudio_instance = Null
        /\ worker[aev.w].pc = "exited"
        /\ stops = 1

\* C3 witness: the session was stopped by the inactivity timeout.
C3_Witness ==
    /\ aev.overdue
    /\ ~is_listening
    /\ stops = 1
\* C4: a confirmation fires only when the buffer, with the observations of
\* the frame being processed appended, holds at least 3 observations of the
\* confirmed type detected within [t - confirmation_time, t], t being the
\* time of that frame; older observations are not counted.
C4_ConfirmedWithinWindow ==
    gev.op = "confirmed" => gev.fresh >= MIN_REPEATS

\* C4 witness: a confirmation after observations fell out of the window.
C4_Witness ==
    /\ gev.op = "confirmed"
    /\ gev.fresh >= MIN_REPEATS
    /\ now > GESTURE_CONFIRMATION_TIME + 1

\* C5 as stated: two consecutive confirmations carry the same label only if
\* a resume() call occurred between them.
C5_NoRepeatWithoutResume ==
    (gev.op = "confirmed" /\ gev.dup) => gev.resumed

\* C5: two consecutive confirmations carry the same label only if a resume()
\* call or a start_real_time_analysis() call occurred between them.
C5_NoRepeatWithoutResumeOrStart ==
    (gev.op = "confirmed" /\ gev.dup) => (gev.resumed \/ gev.started)

\* C5 witness: the label confirmed last is confirmed again after a restart.
C5_Witness ==
    /\ gev.op = "confirmed"
    /\ gev.dup
    /\ gev.started

\* C6: after resume() on an active engine that was paused,
\* last_confirmed_gesture is none, the buffer is empty and the inactivity
\* timer starts at the time of the resume.
C6_ResumeResetsDebounce ==
    (gev.op = "resumed" /\ gev.was_paused) =>
        /\ last_confirmed_gesture = Null
        /\ gesture_buffer = <<>>
        /\ last_gesture_time = gev.at

C8_NoConfirmationWhileGenerating ==
    ~(gev.op = "confirmed" /\ gev.busy)

\* C9: no text is pushed to recognized_text_queue between the start of a
\* chat generation and its end.
C9_NoUtteranceWhileGenerating ==
    ~(aev.op = "emitted" /\ aev.pushed > 0 /\ aev.busy)

\* C10: whenever the engine is active and paused, a generation that paused it
\* is still in progress, so that the resume of its end is still to come.
C10_PausedOnlyWhileResumeOwed ==
    (is_vision_active /\ is_paused) =>
        \E r \in Requests :
            chat[r].pc = "streaming" /\ chat[r].gesture_was_active
\* C11: a start_listening() call made while the session is listening is
\* answered 'already_listening' and is never taken as the start of a
\* session (which opens a stream, starts a worker and resets audio_frames
\* and last_speech_time).
C11_StartWhileListeningIsNoOp ==
    aev.again => aev.op = "already_listening"

\* C11 witness: start_listening() was answered 'already_listening' while
\* the worker of the session held frames.
C11_Witness ==
    /\ aev.op = "already_listening"
    /\ aev.again
    /\ is_listening
    /\ audio_frames # <<>>
    /\ \E w \in Workers : worker[w].pc = "loop"
\* C12: after an emission whose recognition ended with an error
\* (unrecognized speech, service failure, any other exception) the session
\* listens as it did before, the worker is back in its loop, audio_frames is
\* empty, has_speech is false and nothing was pushed to the utterance queue.
C12_RecognitionErrorKeepsSession ==
    (aev.op = "emitted" /\ aev.invoked /\ aev.failed) =>
        /\ is_listening = aev.listening
        /\ worker[aev.w].pc = "loop"
        /\ audio_frames = <<>>
        /\ ~worker[aev.w].has_speech
        /\ aev.pushed = 0

\* C12 witness: the recognition of a segment failed and the session listens.
C12_Witness ==
    /\ aev.op = "emitted"
    /\ aev.invoked
    /\ aev.failed
    /\ is_listening
    /\ recognized_text_queue = <<>>

\* C19: when silence is confirmed on a segment of fewer than 10 frames the
\* recognizer is not invoked, nothing is pushed to the utterance queue and
\* the capture state is reset: audio_frames empty, has_speech false,
\* silence_start unset.
C19_ShortSegmentDiscarded ==
    (aev.op = "emitted" /\ aev.short) =>
        /\ ~aev.invoked
        /\ aev.pushed = 0
        /\ audio_frames = <<>>
        /\ ~worker[aev.w].has_speech
        /\ worker[aev.w].silence_start = None

\* C19 witness: a short segment was discarded and the worker loops on.
C19_Witness ==
    /\ aev.op = "emitted"
    /\ aev.short
    /\ ~aev.failed
    /\ worker[aev.w].pc = "loop"
    /\ is_listening
\* C14: after audio_stream.read has raised in the capture loop the session
\* is not listening (so that a following start_listening() begins a new
\* session).
C14_ReadFailureEndsSession ==
    aev.op = "read_failed" => ~is_listening
\* C18: the segment handed to the recognizer starts with the first frame
\* above volume_threshold: no frame read while the session was silent before
\* the speech is part of it.
C18_SegmentStartsAtSpeech ==
    \A w \in Workers :
        (worker[w].pc = "recognize" /\ ~TooShort(audio_frames)) =>
            IsSpeech(audio_frames[1])
\* C17: a frame read within inactivity_timeout of the end of an emission
\* that invoked the recognizer, however long the recognition took, leaves the
\* session listening.
C17_GraceAfterEmission ==
    (aev.op = "frame" /\ aev.grace) => is_listening
\* C15: a frame callback that begins while the engine is paused changes
\* nothing: gesture_buffer, last_confirmed_gesture, last_gesture_time and
\* gesture_text_queue are as before, the engine is not stopped by the
\* inactivity rule, the capture loop runs on and the camera is still held.
C15_PausedFrameIsNoOp ==
    [][(is_paused /\ gev'.op \in FrameOps) =>
          /\ gev'.op = "frame_paused"
          /\ UNCHANGED <<gesture_buffer, last_confirmed_gesture,
                         last_gesture_time, gesture_text_queue,
                         is_vision_active, is_paused, is_recording, camera,
                         capture_thread, cap>>]_vars

\* C15 witness: a frame arrived while the engine was paused, later than
\* gesture_inactivity_timeout after the last gesture; the engine is active,
\* the loop runs and the camera is held.
C15_Witness ==
    /\ gev.op = "frame_paused"
    /\ is_paused
    /\ now - last_gesture_time > GESTURE_INACTIVITY_TIMEOUT
    /\ is_vision_active
    /\ is_recording
    /\ camera # Null
    /\ \E c \in CapThreads : cap[c].pc = "loop"

\* C20: a frame callback that begins unpaused later than
\* gesture_inactivity_timeout after last_gesture_time stops the engine
\* (is_vision_active false, the capture loop told to end) and appends
\* nothing, does not reach the classifier and confirms nothing; one that
\* begins at the timeout or before goes on to the classifier and leaves the
\* engine running.
C20_InactivityCheckedBeforeIntake ==
    [][(~is_paused /\ gev'.op \in FrameOps) =>
          IF now - last_gesture_time > GESTURE_INACTIVITY_TIMEOUT
          THEN /\ gev'.op = "inactive_stop"
               /\ ~is_vision_active'
               /\ ~is_recording'
               /\ \A c \in CapThreads :
                     cap[c].pc = "loop" => cap'[c].pc # "detect"
               /\ UNCHANGED <<gesture_buffer, last_confirmed_gesture,
                              last_gesture_time, gesture_text_queue>>
          ELSE /\ gev'.op = "frame"
               /\ \E c \in CapThreads :
                     cap[c].pc = "loop" /\ cap'[c].pc = "detect"
               /\ UNCHANGED <<is_vision_active, is_recording, camera>>]_vars

\* C20 witness: the engine was stopped by a frame that came later than the
\* timeout after the last gesture, with an observation still buffered.
C20_Witness ==
    /\ gev.op = "inactive_stop"
    /\ ~is_vision_active
    /\ ~is_recording
    /\ now - last_gesture_time > GESTURE_INACTIVITY_TIMEOUT
    /\ \A c \in CapThreads : cap[c].pc # "detect"
\* A callback ends with a confirmation check: it has appended observations
\* (the buffer it leaves is the pruned buffer) or it has confirmed a gesture.
CheckedBy(c) ==
    /\ cap[c].pc = "detect"
    /\ cap'[c].pc = "loop"
    /\ gesture_buffer' # gesture_buffer \/ gev'.op = "confirmed"

\* C16 (as stated): at every confirmation check, if the most frequent label
\* of the pruned buffer has count >= 3 and differs from last_confirmed_gesture,
\* a gesture is confirmed: the callback is invoked, last_confirmed_gesture is
\* that label and the buffer is cleared.
C16_ConfirmedWhenRepeated ==
    [][\A c \in CapThreads :
          (CheckedBy(c) /\ gev'.op # "confirmed") =>
              ~(/\ Count(gesture_buffer', MostCommon(gesture_buffer'))
                      >= MIN_REPEATS
                /\ MostCommon(gesture_buffer') # last_confirmed_gesture)]_vars

\* C16 (amended): at every confirmation check, if the most frequent label of
\* the pruned buffer has count >= 3 and differs from last_confirmed_gesture,
\* then: when the label is in gesture_text_map, the callback is invoked with
\* its mapped text, last_confirmed_gesture is that label and the buffer is
\* cleared; when it is not, nothing is confirmed and last_confirmed_gesture
\* and the buffer stay as they were.
C16_ConfirmedWhenRepeatedAndMapped ==
    [][\A c \in CapThreads :
          CheckedBy(c) =>
              IF gev'.op = "confirmed"
              THEN /\ gev'.count >= MIN_REPEATS
                   /\ gev'.top # gev'.last
                   /\ gev'.top \in DOMAIN GestureTextMap
                   /\ gev'.last = last_confirmed_gesture
                   /\ last_confirmed_gesture' = gev'.top
                   /\ gesture_buffer' = <<>>
                   /\ gesture_text_queue' =
                          Append(gesture_text_queue, GestureTextMap[gev'.top])
              ELSE /\ (/\ Count(gesture_buffer', MostCommon(gesture_buffer'))
                             >= MIN_REPEATS
                       /\ MostCommon(gesture_buffer') # last_confirmed_gesture)
                          => MostCommon(gesture_buffer')
                                 \notin DOMAIN GestureTextMap
                   /\ UNCHANGED <<last_confirmed_gesture,
                                  gesture_text_queue>>]_vars

\* C16 witness: a label of gesture_text_map, seen three times within the
\* window and not the label confirmed last, was confirmed.
C16_Witness ==
    /\ gev.op = "confirmed"
    /\ gev.count >= MIN_REPEATS
    /\ gev.top = "open_palm"
    /\ gev.last # "open_palm"
    /\ last_confirmed_gesture = "open_palm"
    /\ gesture_buffer = <<>>
    /\ gesture_text_queue = <<GestureTextMap["open_palm"]>>
\* C13: each queue changes only by a push at its tail, made by an emission
\* of its capture thread, or by a poll that removes its head and returns it;
\* so polls return the pushed events in the order of their pushes, each at
\* most once, and nothing else.
C13_QueuesAreFifo ==
    [][/\ recognized_text_queue' # recognized_text_queue =>
            \/ /\ aev'.op = "emitted"
               /\ aev'.pushed = 1
               /\ \E x \in Texts :
                     recognized_text_queue' = Append(recognized_text_queue, x)
            \/ /\ aev'.op = "polled"
               /\ recognized_text_queue # <<>>
               /\ aev'.text = Head(recognized_text_queue)
               /\ recognized_text_queue' = Tail(recognized_text_queue)
       /\ (aev'.op = "polled" /\ aev' # aev) =>
            /\ recognized_text_queue # <<>>
            /\ aev'.text = Head(recognized_text_queue)
            /\ recognized_text_queue' = Tail(recognized_text_queue)
       /\ gesture_text_queue' # gesture_text_queue =>
            \/ /\ gev'.op = "confirmed"
               /\ gesture_text_queue' =
                     Append(gesture_text_queue, GestureTextMap[gev'.label])
            \/ /\ gev'.op = "polled"
               /\ gesture_text_queue # <<>>
               /\ gev'.text = Head(gesture_text_queue)
               /\ gesture_text_queue' = Tail(gesture_text_queue)
       /\ (gev'.op = "polled" /\ gev' # gev) =>
            /\ gesture_text_queue # <<>>
            /\ gev'.text = Head(gesture_text_queue)
            /\ gesture_text_queue' = Tail(gesture_text_queue)]_vars

\* C13 witness: a poll has returned the first of two different events pushed
\* to its queue and the second is now at the head.
C13_Witness ==
    \/ /\ aev.op = "polled"
       /\ aev.text = "a"
       /\ recognized_text_queue = <<"b">>
    \/ /\ gev.op = "polled"
       /\ gev.text = GestureTextMap["open_palm"]
       /\ gesture_text_queue = <<GestureTextMap["victory"]>>

\* C21: when a frame callback that began with the engine active and not
\* paused ends, whether or not the classifier returned an observation, every
\* observation left in gesture_buffer was detected within
\* gesture_confirmation_time before the callback's current_time.
C21_PrunedAtEveryFeed ==
    [][\A c \in CapThreads :
          (/\ cap[c].pc = "detect"
           /\ cap'[c].pc = "loop"
           /\ is_vision_active
           /\ ~is_paused) =>
              \A i \in DOMAIN gesture_buffer' :
                  InWindow(gesture_buffer'[i], cap[c].current_time)]_vars

\* C22: a confirmation check that confirms leaves gesture_buffer empty,
\* whatever labels it held; one that does not confirm leaves
\* last_confirmed_gesture as it was and gesture_buffer as the pruning of the
\* callback left it.
C22_BufferClearedOnlyOnConfirmation ==
    [][\A c \in CapThreads :
          CheckedBy(c) =>
              IF gev'.op = "confirmed"
              THEN gesture_buffer' = <<>>
              ELSE /\ UNCHANGED last_confirmed_gesture
                   /\ \E gestures \in Detections :
                         /\ gestures # <<>>
                         /\ gesture_buffer' =
                                Prune(gesture_buffer \o
                                          Stamped(gestures, cap[c].current_time),
                                      cap[c].current_time)]_vars

\* C22 witness: a gesture was confirmed while the pruned buffer also held
\* observations of another label, and the buffer is empty.
C22_Witness ==
    /\ gev.op = "confirmed"
    /\ \E i \in DOMAIN gev.buf : gev.buf[i].type # gev.label
    /\ gesture_buffer = <<>>

\* C27: the label a check confirms is the most frequent label of the pruned
\* buffer, and among labels that tie for the greatest count the one whose
\* first observation is the oldest in the buffer: no other label is
\* confirmed, whatever its count.
C27_OnlyMostFrequentConfirmed ==
    gev.op = "confirmed" =>
        LET n(ty) == Cardinality({i \in DOMAIN gev.buf : gev.buf[i].type = ty})
            first(ty) == CHOOSE i \in DOMAIN gev.buf :
                            /\ gev.buf[i].type = ty
                            /\ \A j \in 1..(i - 1) : gev.buf[j].type # ty
        IN  /\ n(gev.label) >= MIN_REPEATS
            /\ \A i \in DOMAIN gev.buf :
                  gev.buf[i].type # gev.label =>
                      \/ n(gev.label) > n(gev.buf[i].type)
                      \/ /\ n(gev.label) = n(gev.buf[i].type)
                         /\ first(gev.label) < first(gev.buf[i].type)

\* C27 witness: two labels tied at three observations each and the one seen
\* first was confirmed.
C27_Witness ==
    /\ gev.op = "confirmed"
    /\ Len(gev.buf) = 2 * MIN_REPEATS
    /\ \E i \in DOMAIN gev.buf :
          /\ gev.buf[i].type # gev.label
          /\ Cardinality({j \in DOMAIN gev.buf :
                 gev.buf[j].type = gev.buf[i].type}) = MIN_REPEATS
    /\ gev.buf[1].type = gev.label
    /\ last_confirmed_gesture = gev.label


\* C23: one bad frame never ends the capture loop: a capture thread leaves
\* its loop only when the loop condition (is_recording and a camera) is false,
\* so a frame whose camera.read() fails is skipped and the engine stays
\* active.
C23_BadFrameSkipped ==
    [][\A c \in CapThreads :
          (cap[c].pc = "loop" /\ cap'[c].pc = "idle") =>
              ~(is_recording /\ camera # Null)]_vars


\* C24: is_paused has a single writer: every step that changes it is a step
\* of a chat request (the pause before the generation, the resume at its
\* end); the capture thread's callbacks, start_real_time_analysis,
\* stop_real_time_analysis, the inactivity stop and the polls leave it as it
\* is.
C24_PausedWrittenOnlyByChat ==
    [][is_paused' # is_paused =>
          \E r \in Requests : chat'[r].pc # chat[r].pc]_vars


\* C25: a stop called after the loop has already exited on its own
\* inactivity timeout is tolerated. stop_listening() after the worker timed
\* out leaves the session stopped and touches neither the stream nor the
\* PyAudio instance, both already released; stop_real_time_analysis() after
\* the capture thread timed out runs to its end without waiting and leaves the
\* engine and the capture stopped with the camera released.
C25_StopAfterExitTolerated ==
    [][/\ (WorkerTimedOut /\ aev'.op = "stop_after_exit") =>
              /\ ~is_listening'
              /\ audio_stream = Null /\ pyaudio_instance = Null
              /\ UNCHANGED <<audio_stream, pyaudio_instance, stops>>
       /\ (CameraTimedOut /\ gev'.op = "stop_after_exit") =>
              /\ ~is_vision_active' /\ ~is_recording'
              /\ camera' = Null /\ capture_thread' = 0
              /\ stopper'.pc = "idle"]_vars

\* stop_listening() has been called after the worker timed out.
C25_AudioCase == aev.op = "stop_after_exit" /\ ~is_listening /\ stops = 1

\* stop_real_time_analysis() has been called after the capture thread timed
\* out.
C25_CameraCase ==
    gev.op = "stop_after_exit" /\ ~is_vision_active /\ camera = Null

C25_Witness == C25_AudioCase \/ C25_CameraCase


\* C26: at most one audio capture loop runs at a time: while the session is
\* listening, at most one recording_worker thread is inside its loop (reading
\* frames into audio_frames or recognising them), whatever the order of
\* start_listening(), stop_listening() and resume_listening().
C26_OneCaptureLoop == is_listening => Cardinality(AliveWorkers) <= 1


\* C28: once stop_real_time_analysis has run, the engine and the capture are
\* off and the camera handle is released, also when it is the capture thread
\* that has called it on the gesture inactivity timeout.
C28_StopReleasesCamera ==
    gev.op \in {"inactive_stop", "stop_after_exit"} =>
        ~is_vision_active /\ ~is_recording /\ camera = Null


\* C29: no step taken while the audio session is not listening removes a
\* pending utterance, and no step taken while the camera capture thread is not
\* alive removes a pending gesture text: a poll then returns 'stopped' without
\* popping and a start keeps the queue, so the pending events are still first
\* in the queue for the polls of the next active session.
C29_PendingEventsKept ==
    [][/\ ~is_listening =>
              IsPrefix(recognized_text_queue, recognized_text_queue')
       /\ ~CapAlive(capture_thread) =>
              IsPrefix(gesture_text_queue, gesture_text_queue')]_vars

\* A poll has returned an utterance in a session whose worker has read no
\* frame yet: the utterance was pending when the session started.
C29_Witness ==
    /\ aev.op = "polled" /\ aev.text # Null
    /\ is_listening /\ audio_frames = <<>>
    /\ \E w \in Workers : worker[w].pc = "loop"
    /\ \A w \in Workers : worker[w].pc = "loop" => obs[w] = NoObs


\* C30: the inactivity timeout discards no pending utterance. When the worker
\* stops the session for inactivity with has_speech still true, the first
\* silent frame after the last loud one came so late that silence_threshold
\* plus the gap between these two consecutive frames is not less than
\* inactivity_timeout; with frames closer than that has_speech is false at
\* the stop.
C30_NoSpeechPendingAtTimeout ==
    \A w \in Workers :
        (WorkerTimedOut /\ aev.w = w /\ worker[w].has_speech) =>
            SILENCE_THRESHOLD + (worker[w].silence_start - last_speech_time)
                >= INACTIVITY_TIMEOUT

\* The worker has heard speech, emitted it and then stopped the session for
\* inactivity at its next frame, with nothing pending.
C30_Witness ==
    /\ WorkerTimedOut /\ aev.after_emit
    /\ ~worker[aev.w].has_speech /\ ~is_listening

====
